---- MODULE Spec2Model ----
(***************************************************************************)
(* Model of the event-ingestion path of streaming/stream_events.py:        *)
(* EventStreamer.generate_event_id, generate_user_journey, stream_events   *)
(* (under @retry.Retry(deadline=30)), verify_deduplication,                *)
(* get_recent_events and main(); and of the live event feed of             *)
(* dashboard/app.py: load_live_events and the status indicator of main().  *)
(*                                                                         *)
(* Strings are sequences of one-character strings.  Time is counted in     *)
(* ticks of the wall clock.                                                *)
(***************************************************************************)
EXTENDS Integers, Sequences, FiniteSets, TLC

VARIABLES
    keyLog,       \* the two most recent key derivations, newest first
    now,          \* wall clock (ticks)
    table,        \* the store: visible rows of events_streaming, in insert order
    insertIds,    \* the store's dedup memory: insertId -> time it was remembered
    writes,       \* per event_id: times of its first and last write, and
                  \* whether it was written more than once
    pc,           \* position of main() / of the running stream_events call
    all_events,   \* main(): the events generated for this run
    events,       \* stream_events: the batch argument of the current call
    callNo,       \* which stream_events call of main() is running (1 or 2)
    deadline_at,  \* Retry: instant at which the retry budget ends
    delay,        \* Retry: next backoff sleep
    wake,         \* Retry: instant the current backoff sleep ends
    requests,     \* insert_rows_json requests issued by the current call
    acked,        \* event_ids the store has confirmed to the current call
    result,       \* outcome of the current / last stream_events call
    redelivered,  \* number of writes done by the other ingestor
    bad_names,    \* event names whose rows the table's schema rejects
    test_dedup,   \* main(): the --test-dedup flag
    start_time,   \* stream_events: start_time of the running attempt
    is_unique,    \* main(): what verify_deduplication returned
    query_outcome,   \* how the store answered the last recent-events query
    recent,          \* main(): what get_recent_events delivered to main()
    page,            \* dashboard main(): position of the current script run
    live_events_df,  \* dashboard main(): seconds_ago column of the live feed
    status           \* dashboard main(): what section 4 shows above the feed

vars == <<keyLog, now, table, insertIds, writes, pc, all_events, events, callNo,
          deadline_at, delay, wake, requests, acked, result, redelivered,
          bad_names, test_dedup, start_time, is_unique, query_outcome, recent,
          page, live_events_df, status>>

streamVars == <<now, table, insertIds, writes, pc, all_events, events, callNo,
                deadline_at, delay, wake, requests, acked, result, redelivered,
                bad_names, test_dedup, start_time, is_unique, query_outcome,
                recent, page, live_events_df, status>>

dashVars == <<page, live_events_df, status>>
feedVars == <<query_outcome, recent, page, live_events_df, status>>

-----------------------------------------------------------------------------
(* Bounds of the model *)

\* longest user_id / event_name handed to generate_event_id directly
MaxStrLen == 2
\* size of the digest space standing for the 64-bit truncated SHA-256
DigestSpace == 997
\* last tick of the wall clock
MaxTime == 4
\* Retry(deadline=30): the retry budget of one stream_events call, in ticks
Deadline == 2
\* the store's dedup window ("1-minute window"), in ticks
DedupWindow == 3
\* writes the other ingestor makes
MaxRedeliver == 1

\* characters user ids and event names are drawn from
Alphabet == {"a", "-"}
\* timestamps handed to generate_event_id directly (microseconds)
Timestamps == {-1, 0, 12}

-----------------------------------------------------------------------------
(* Strings *)

Digits == <<"0", "1", "2", "3", "4", "5", "6", "7", "8", "9">>

Chars == <<"-", "0", "1", "2", "3", "4", "5", "6", "7", "8", "9",
           "a", "b", "c", "i", "p", "u", "v">>

CharCode(c) == CHOOSE i \in 1..Len(Chars) : Chars[i] = c

RECURSIVE NatToStr(_)
NatToStr(n) ==
    IF n < 10 THEN <<Digits[n + 1]>>
    ELSE NatToStr(n \div 10) \o <<Digits[(n % 10) + 1]>>

\* str(int): decimal digits, with a leading minus sign for a negative number
IntToStr(n) == IF n < 0 THEN <<"-">> \o NatToStr(-n) ELSE NatToStr(n)

StringsUpTo(n) == UNION {[1..k -> Alphabet] : k \in 0..n}

-----------------------------------------------------------------------------
(* EventStreamer.generate_event_id *)

\* f"{user_id}-{event_name}-{timestamp}"
unique_string(user_id, event_name, timestamp) ==
    user_id \o <<"-">> \o event_name \o <<"-">> \o IntToStr(timestamp)

\* hashlib.sha256(s.encode()).hexdigest()[:16]: a fixed function of the
\* characters of s and of nothing else; the digest space is narrowed.
RECURSIVE sha256_hex16(_)
sha256_hex16(s) ==
    IF s = <<>> THEN 7
    ELSE (sha256_hex16(SubSeq(s, 1, Len(s) - 1)) * 31 + CharCode(s[Len(s)]))
             % DigestSpace

\* a derivation that also mixes in per-instance state (a call counter)
generate_event_id_salted(user_id, event_name, timestamp) ==
    sha256_hex16(unique_string(user_id, event_name, timestamp)
                 \o NatToStr(Len(keyLog)))

generate_event_id(user_id, event_name, timestamp) ==
    sha256_hex16(unique_string(user_id, event_name, timestamp))

\* what one call of generate_event_id did: no argument is validated, the
\* call never raises
KeyCall(user_id, event_name, timestamp) ==
    [user_id |-> user_id, event_name |-> event_name, timestamp |-> timestamp,
     hashed |-> unique_string(user_id, event_name, timestamp),
     raised |-> FALSE,
     event_id |-> generate_event_id(user_id, event_name, timestamp)]

-----------------------------------------------------------------------------
(* EventStreamer.generate_user_journey *)

\* journey_types: page_view, view_item, add_to_cart, begin_checkout, purchase
journey_types == << <<"p", "v">>, <<"v", "i">>, <<"a", "c">>, <<"b", "c">>, <<"p", "u">> >>

Min(a, b) == IF a < b THEN a ELSE b

\* One event of a journey.  Of the dict the code builds, the fields that the
\* write path and the read-back queries use are kept; event_params,
\* traffic_source, device and geo are random filler no operation reads.
JourneyEvent(user_id, event_name, event_timestamp, utcnow) ==
    [event_id |-> generate_event_id(user_id, event_name, event_timestamp),
     event_timestamp |-> event_timestamp,
     event_name |-> event_name,
     user_pseudo_id |-> user_id,
     ingestion_timestamp |-> utcnow,
     has_ecommerce |-> (event_name = <<"p", "u">>)]

\* journey_types[:num_events], event i at base_time + i * gap; base_time and
\* gap are the random draws of the code, utcnow the clock it reads
generate_user_journey(user_id, num_events, base_time, gap, utcnow) ==
    [i \in 1..Min(num_events, Len(journey_types)) |->
        JourneyEvent(user_id, journey_types[i], base_time + (i - 1) * gap, utcnow)]

\* the derivation that produced the event_id of a built event
KeyCallOf(ev) ==
    [user_id |-> ev.user_pseudo_id, event_name |-> ev.event_name,
     timestamp |-> ev.event_timestamp,
     hashed |-> unique_string(ev.user_pseudo_id, ev.event_name, ev.event_timestamp),
     raised |-> FALSE,
     event_id |-> ev.event_id]

\* random draws of generate_user_journey, as microsecond timestamps
BaseTimes == {10}
Gaps == {3}

-----------------------------------------------------------------------------
(* The store: table events_streaming behind client.insert_rows_json,       *)
(* with the insertId dedup window the write path relies on                 *)

\* a row written without an insert id (no key is an integer below 0)
NoInsertId == 0 - 1

\* SELECT COUNT(*) FROM table WHERE event_id = k
RowCount(tbl, k) == Cardinality({i \in DOMAIN tbl : tbl[i].event_id = k})

\* the store still remembers insert id `id` at time t
Remembered(ids, id, t) ==
    /\ id # NoInsertId
    /\ id \in DOMAIN ids
    /\ t - ids[id] < DedupWindow

NoteWrite(w, k, t) ==
    IF k \in DOMAIN w
    THEN [w EXCEPT ![k] = [first |-> @.first, last |-> t, again |-> TRUE]]
    ELSE (k :> [first |-> t, last |-> t, again |-> FALSE]) @@ w

\* one row written with insert id `id` at time t: suppressed while the id is
\* remembered, appended (and the id remembered) otherwise
StoreRow(st, row, id, t) ==
    [tbl |-> IF Remembered(st.ids, id, t) THEN st.tbl ELSE Append(st.tbl, row),
     ids |-> IF Remembered(st.ids, id, t) \/ id = NoInsertId THEN st.ids
             ELSE (id :> t) @@ st.ids,
     w   |-> NoteWrite(st.w, row.event_id, t)]

\* rows[i] written with row_ids[i], for the positions i in `which`, in order
RECURSIVE StoreRows(_, _, _, _, _, _)
StoreRows(st, rows, row_ids, which, i, t) ==
    IF i > Len(rows) THEN st
    ELSE StoreRows(IF i \in which THEN StoreRow(st, rows[i], row_ids[i], t) ELSE st,
                   rows, row_ids, which, i + 1, t)

\* positions of the rows the table's schema rejects
InvalidRows(rows) == {i \in DOMAIN rows : rows[i].event_name \in bad_names}

\* insertErrors of one insertAll answer.  With no invalid row: none.  With
\* partial = FALSE one invalid row fails the whole request (the others are
\* reported "stopped"); with partial = TRUE only the invalid rows fail.
InsertErrors(rows, partial) ==
    IF InvalidRows(rows) = {} THEN {}
    ELSE {[index |-> i - 1,
           reason |-> IF i \in InvalidRows(rows) THEN "invalid" ELSE "stopped"] :
          i \in IF partial THEN InvalidRows(rows) ELSE DOMAIN rows}

\* positions of the rows an insertAll request makes visible
Accepted(rows, partial) ==
    IF InvalidRows(rows) = {} THEN DOMAIN rows
    ELSE IF partial THEN DOMAIN rows \ InvalidRows(rows) ELSE {}

Store == [tbl |-> table, ids |-> insertIds, w |-> writes]

-----------------------------------------------------------------------------
(* EventStreamer.stream_events under @retry.Retry(deadline=30) *)

\* exceptions client.insert_rows_json can raise
StoreExceptions == {"ServiceUnavailable", "NotFound"}

\* a predicate that retries nothing
if_transient_error_never(exc) == FALSE

\* Retry's default predicate
if_transient_error(exc) ==
    exc \in {"InternalServerError", "TooManyRequests", "ServiceUnavailable"}

\* first backoff sleep of Retry, in ticks
RetryInitial == 1

\* row ids that are not derived from the events
RowIdsNone(rows_to_insert) == [i \in DOMAIN rows_to_insert |-> NoInsertId]

\* row ids listed in the opposite order to the rows
RowIdsReversed(rows_to_insert) ==
    [i \in DOMAIN rows_to_insert |->
        rows_to_insert[Len(rows_to_insert) + 1 - i][2]]

\* rows_to_insert = [(event, event["event_id"]) for event in events]
RowsToInsert(evs) == [i \in DOMAIN evs |-> <<evs[i], evs[i].event_id>>]

\* [r[0] for r in rows_to_insert]
JsonRows(rows_to_insert) == [i \in DOMAIN rows_to_insert |-> rows_to_insert[i][1]]

\* row_ids=[r[1] for r in rows_to_insert]
RowIds(rows_to_insert) == [i \in DOMAIN rows_to_insert |-> rows_to_insert[i][2]]

Raised(exc) == [kind |-> "raised", exc |-> exc]

\* a body that raises when the store reports row errors
stream_events_raising(errors, n, latency) ==
    IF errors # {} THEN Raised("ServiceUnavailable")
    ELSE [kind |-> "returned", success |-> TRUE, rows_inserted |-> n,
          latency_seconds |-> latency]

\* a body that raises a plain error when the store reports row errors
stream_events_failing(errors, n, latency) ==
    IF errors # {} THEN Raised("RuntimeError")
    ELSE [kind |-> "returned", success |-> TRUE, rows_inserted |-> n,
          latency_seconds |-> latency]

\* lines 203-210: what the body returns once insert_rows_json has answered
stream_events_return(errors, n, latency) ==
    IF errors # {}
    THEN [kind |-> "returned", success |-> FALSE, errors |-> errors,
          latency_seconds |-> latency]
    ELSE [kind |-> "returned", success |-> TRUE, rows_inserted |-> n,
          latency_seconds |-> latency]

-----------------------------------------------------------------------------
(* Specification of the key deriver alone: callers hand it any strings *)

NoResult == [kind |-> "none"]

\* nothing queried, nothing shown yet
FeedIdle ==
    /\ query_outcome = "unset"
    /\ recent = NoResult
    /\ page = "load"
    /\ live_events_df = <<>>
    /\ status = NoResult

StreamIdle ==
    /\ now = 0
    /\ table = <<>>
    /\ insertIds = <<>>
    /\ writes = <<>>
    /\ pc = "generate"
    /\ all_events = <<>>
    /\ events = <<>>
    /\ callNo = 0
    /\ deadline_at = 0
    /\ delay = 0
    /\ wake = 0
    /\ requests = <<>>
    /\ acked = {}
    /\ result = NoResult
    /\ redelivered = 0
    /\ bad_names = {}
    /\ test_dedup = FALSE
    /\ start_time = 0
    /\ is_unique = "unset"
    /\ FeedIdle

KeyInit == keyLog = <<>> /\ StreamIdle

\* a caller derives the key of (user_id, event_name, timestamp)
FirstDerivation ==
    /\ keyLog = <<>>
    /\ \E u \in StringsUpTo(MaxStrLen), e \in StringsUpTo(MaxStrLen), t \in Timestamps :
           keyLog' = <<KeyCall(u, e, t)>>
    /\ UNCHANGED streamVars

\* a later caller derives a key, of the same or of another triple
SecondDerivation ==
    /\ Len(keyLog) = 1
    /\ \E u \in StringsUpTo(MaxStrLen), e \in StringsUpTo(MaxStrLen), t \in Timestamps :
           keyLog' = <<KeyCall(u, e, t)>> \o keyLog
    /\ UNCHANGED streamVars

\* a caller builds a journey for any user_id; its last event's derivation is
\* logged after whatever was derived before
JourneyDerivation ==
    /\ Len(keyLog) <= 1
    /\ \E u \in StringsUpTo(MaxStrLen), n \in 1..Len(journey_types),
          b \in BaseTimes, g \in Gaps :
           LET journey == generate_user_journey(u, n, b, g, now)
           IN  keyLog' = <<KeyCallOf(journey[Len(journey)])>> \o keyLog
    /\ UNCHANGED streamVars

KeyNext == FirstDerivation \/ SecondDerivation \/ JourneyDerivation

SpecKey == KeyInit /\ [][KeyNext]_vars

-----------------------------------------------------------------------------
(* main(): generate journeys, stream them, optionally re-stream the first    *)
(* event and verify its deduplication, then list the recent events           *)

\* user_id = f"user_{uuid.uuid4().hex[:8]}" of the i-th simulated user
UserIdPool == << <<"u", "1">>, <<"u", "2">> >>
\* values of --num-users and --events-per-user
NumUsersArgs == {0, 1}
EventsPerUserArgs == {0, 1, 2}
\* the schemas an already existing table can have, as the names it rejects
BadNameSets == {{}, {journey_types[2]}, {journey_types[1], journey_types[2]}}

RECURSIVE AllJourneys(_, _, _, _, _)
AllJourneys(num_users, per_user, base_time, gap, utcnow) ==
    IF num_users = 0 THEN <<>>
    ELSE AllJourneys(num_users - 1, per_user, base_time, gap, utcnow)
         \o generate_user_journey(UserIdPool[num_users], per_user, base_time, gap, utcnow)

\* a verifier that only asks whether the key is present
verify_deduplication_present(event_id) == RowCount(table, event_id) >= 1

\* EventStreamer.verify_deduplication
verify_deduplication(event_id) == RowCount(table, event_id) = 1

\* answers of the store to a query: its rows, or an exception
QueryOutcomes == {"ok"} \cup StoreExceptions

\* the limit main() passes to get_recent_events
RecentLimit == 10

\* EventStreamer.get_recent_events: the rows of the query, newest first and at
\* most `limit` of them (here their number); an exception of the query is
\* not caught
get_recent_events(outcome, limit) ==
    IF outcome = "ok"
    THEN [kind |-> "returned", n_rows |-> Min(Len(table), limit)]
    ELSE Raised(outcome)

Init ==
    /\ keyLog = <<>>
    /\ now = 0
    /\ table = <<>>
    /\ insertIds = <<>>
    /\ writes = <<>>
    /\ pc = "generate"
    /\ all_events = <<>>
    /\ events = <<>>
    /\ callNo = 0
    /\ deadline_at = 0
    /\ delay = 0
    /\ wake = 0
    /\ requests = <<>>
    /\ acked = {}
    /\ result = NoResult
    /\ redelivered = 0
    /\ bad_names \in BadNameSets
    /\ test_dedup = FALSE
    /\ start_time = 0
    /\ is_unique = "unset"
    /\ FeedIdle

storeVars == <<table, insertIds, writes>>
retryVars == <<deadline_at, delay, wake>>

\* lines 268-277: build all_events; line 278 calls stream_events(all_events)
MainGenerate ==
    /\ pc = "generate"
    /\ \E num_users \in NumUsersArgs, per_user \in EventsPerUserArgs,
          td \in BOOLEAN, b \in BaseTimes, g \in Gaps :
           /\ all_events' = AllJourneys(num_users, per_user, b, g, now)
           /\ test_dedup' = td
    /\ callNo' = 1
    /\ pc' = "call"
    /\ UNCHANGED <<keyLog, feedVars, now, storeVars, events, retryVars, requests, acked,
                   result, redelivered, bad_names, start_time, is_unique>>

\* stream_events(all_events) at line 278, stream_events([test_event]) at
\* line 292: the Retry wrapper is entered, the deadline is fixed
BeginCall ==
    /\ pc = "call"
    /\ events' = IF callNo = 1 THEN all_events ELSE <<all_events[1]>>
    /\ deadline_at' = now + Deadline
    /\ delay' = RetryInitial
    /\ requests' = <<>>
    /\ acked' = {}
    /\ result' = NoResult
    /\ pc' = "attempt"
    /\ UNCHANGED <<keyLog, feedVars, now, storeVars, all_events, callNo, wake,
                   redelivered, bad_names, test_dedup, start_time, is_unique>>

\* lines 189-201: one run of the body up to the insert_rows_json request;
\* the request is logged with the time it was sent (answered_at is set when
\* the store answers it)
Submit ==
    /\ pc = "attempt"
    /\ start_time' = now
    /\ LET rows_to_insert == RowsToInsert(events)
       IN  requests' = Append(requests, [rows |-> JsonRows(rows_to_insert),
                                         row_ids |-> RowIds(rows_to_insert),
                                         sent_at |-> now,
                                         answered_at |-> now,
                                         outcome |-> "pending",
                                         errors |-> {},
                                         confirmed |-> {}])
    /\ pc' = "inflight"
    /\ UNCHANGED <<keyLog, feedVars, now, storeVars, all_events, events, callNo, retryVars,
                   acked, result, redelivered, bad_names, test_dedup, is_unique>>

LastRequest == requests[Len(requests)]

\* retry_target of Retry, given how the body ended.  A returned value is
\* returned and an exception the predicate rejects propagates.  A transient
\* exception is slept on and the body run again: the sleep is a random part
\* of the backoff delay (at least one tick here), the delay doubles.  Once
\* the deadline has passed RetryError is raised; releases of the library
\* differ on a sleep that would overrun the deadline (cut it short at the
\* deadline, or raise RetryError right away), so both may happen.
RetryOutcome(res) ==
    IF res.kind = "raised" /\ if_transient_error(res.exc)
    THEN \E sleep \in 1..delay :
            \/ /\ now + sleep > deadline_at
               /\ result' = Raised("RetryError")
               /\ pc' = "crashed"
               /\ UNCHANGED retryVars
               /\ UNCHANGED start_time
            \/ /\ now < deadline_at
               /\ wake' = Min(now + sleep, deadline_at)
               /\ delay' = delay * 2
               /\ pc' = "sleep"
               /\ UNCHANGED <<result, deadline_at, start_time>>
    ELSE /\ result' = res
         /\ pc' = IF res.kind = "raised" THEN "crashed" ELSE "returned"
         /\ UNCHANGED retryVars
         /\ UNCHANGED start_time

\* the store processes the request and answers it (lines 197-210)
RespondAnswer ==
    /\ pc = "inflight"
    /\ \E partial \in BOOLEAN :
        LET req      == LastRequest
            errors   == InsertErrors(req.rows, partial)
            accepted == Accepted(req.rows, partial)
            st       == StoreRows(Store, req.rows, req.row_ids, accepted, 1, now)
            got      == {req.rows[i].event_id : i \in accepted}
        IN  /\ table' = st.tbl
            /\ insertIds' = st.ids
            /\ writes' = st.w
            /\ acked' = acked \cup got
            /\ requests' = [requests EXCEPT ![Len(requests)] =
                               [@ EXCEPT !.outcome = IF errors = {} THEN "ok" ELSE "row_errors",
                                         !.answered_at = now,
                                         !.errors = errors,
                                         !.confirmed = got]]
            /\ RetryOutcome(stream_events_return(errors, Len(events), now - start_time))
    /\ UNCHANGED <<keyLog, feedVars, now, all_events, events, callNo, redelivered, bad_names,
                   test_dedup, is_unique>>

\* insert_rows_json raises; the store may have applied the write before
\* the failure reached the client
RespondRaise ==
    /\ pc = "inflight"
    /\ \E exc \in StoreExceptions, applied \in BOOLEAN :
        LET req      == LastRequest
            accepted == IF applied THEN Accepted(req.rows, FALSE) ELSE {}
            st       == StoreRows(Store, req.rows, req.row_ids, accepted, 1, now)
        IN  /\ table' = st.tbl
            /\ insertIds' = st.ids
            /\ writes' = st.w
            /\ requests' = [requests EXCEPT ![Len(requests)] =
                               [@ EXCEPT !.outcome = exc, !.answered_at = now]]
            /\ RetryOutcome(Raised(exc))
    /\ UNCHANGED <<keyLog, feedVars, now, all_events, events, callNo, acked, redelivered,
                   bad_names, test_dedup, is_unique>>

\* the backoff sleep of Retry ends
Wake ==
    /\ pc = "sleep"
    /\ now >= wake
    /\ pc' = "attempt"
    /\ UNCHANGED <<keyLog, feedVars, now, storeVars, all_events, events, callNo, retryVars,
                   requests, acked, result, redelivered, bad_names, test_dedup,
                   start_time, is_unique>>

\* lines 280-292: after the first call, re-stream the first event when
\* --test-dedup is set; after the second, go on to verify
AfterCall ==
    /\ pc = "returned"
    /\ IF callNo = 1 /\ test_dedup /\ all_events # <<>>
       THEN /\ callNo' = 2
            /\ pc' = "call"
       ELSE /\ pc' = IF callNo = 2 THEN "verify" ELSE "recent"
            /\ UNCHANGED callNo
    /\ UNCHANGED <<keyLog, feedVars, now, storeVars, all_events, events, retryVars, requests, acked,
                   result, redelivered, bad_names, test_dedup, start_time, is_unique>>

\* lines 293-299: verify_deduplication of the re-streamed event; a failing
\* query raises out of main()
Verify ==
    /\ pc = "verify"
    /\ \E query_ok \in BOOLEAN :
        IF query_ok
        THEN /\ is_unique' = verify_deduplication(all_events[1].event_id)
             /\ pc' = "recent"
        ELSE /\ pc' = "crashed"
             /\ UNCHANGED is_unique
    /\ UNCHANGED <<keyLog, feedVars, now, storeVars, all_events, events, callNo, retryVars,
                   requests, acked, result, redelivered, bad_names, test_dedup,
                   start_time>>

\* lines 301-310: get_recent_events(limit=10) and the closing banner; a
\* failing query raises out of main()
ShowRecent ==
    /\ pc = "recent"
    /\ \E outcome \in QueryOutcomes :
        /\ query_outcome' = outcome
        /\ recent' = get_recent_events(outcome, RecentLimit)
        /\ pc' = IF outcome = "ok" THEN "exit" ELSE "crashed"
    /\ UNCHANGED <<keyLog, dashVars, now, storeVars, all_events, events, callNo,
                   retryVars, requests, acked, result, redelivered, bad_names,
                   test_dedup, start_time, is_unique>>

\* another running ingestor delivers one of the same events again: the same
\* request stream_events builds, answered by the store
Redeliver ==
    /\ pc # "generate"
    /\ redelivered < MaxRedeliver
    /\ \E i \in DOMAIN all_events :
        LET rows_to_insert == RowsToInsert(<<all_events[i]>>)
            rows == JsonRows(rows_to_insert)
            st   == StoreRows(Store, rows, RowIds(rows_to_insert),
                              Accepted(rows, FALSE), 1, now)
        IN  /\ table' = st.tbl
            /\ insertIds' = st.ids
            /\ writes' = st.w
    /\ redelivered' = redelivered + 1
    /\ UNCHANGED <<keyLog, feedVars, now, pc, all_events, events, callNo, retryVars, requests,
                   acked, result, bad_names, test_dedup, start_time, is_unique>>

\* the wall clock advances
Tick ==
    /\ pc # "generate"
    /\ now < MaxTime
    /\ now' = now + 1
    /\ UNCHANGED <<keyLog, feedVars, storeVars, pc, all_events, events, callNo, retryVars,
                   requests, acked, result, redelivered, bad_names, test_dedup,
                   start_time, is_unique>>

Next ==
    \/ MainGenerate
    \/ BeginCall
    \/ Submit
    \/ RespondAnswer
    \/ RespondRaise
    \/ Wake
    \/ AfterCall
    \/ Verify
    \/ ShowRecent
    \/ Redeliver
    \/ Tick

Spec == Init /\ [][Next]_vars

-----------------------------------------------------------------------------
(* dashboard/app.py: the live event feed (section 4 of the page) *)

\* most rows a feed query returns here
MaxFeed == 2

\* values of seconds_ago: TIMESTAMP_DIFF(CURRENT_TIMESTAMP(),
\* ingestion_timestamp, SECOND), negative when the client's clock is ahead
AgeSamples == {0 - 5, 0, 10, 59, 60, 61, 120, 299, 300, 301, 600}

\* results of the feed query: ORDER BY ingestion_timestamp DESC, so the
\* seconds_ago column does not decrease
Feeds ==
    {df \in UNION {[1..n -> AgeSamples] : n \in 0..MaxFeed} :
        \A i \in 1..(Len(df) - 1) : df[i] <= df[i + 1]}

\* thresholds of the status indicator, in seconds
LiveSeconds == 60
StaleSeconds == 300

\* live_events_df['seconds_ago'].min()
SecondsAgoMin(df) == CHOOSE a \in {df[i] : i \in DOMAIN df} :
                        \A i \in DOMAIN df : a <= df[i]

Indicator(level, label) == [level |-> level, label |-> label]

\* an indicator that counts the threshold ages to the fresher class
status_indicator_inclusive(df) ==
    LET most_recent_seconds == SecondsAgoMin(df)
    IN  IF most_recent_seconds <= LiveSeconds THEN Indicator("success", "Live")
        ELSE IF most_recent_seconds <= StaleSeconds THEN Indicator("warning", "Recent")
        ELSE Indicator("error", "Stale")

\* lines 392-398: st.success / st.warning / st.error by the age of the most
\* recent event
status_indicator(df) ==
    LET most_recent_seconds == SecondsAgoMin(df)
    IN  IF most_recent_seconds < LiveSeconds THEN Indicator("success", "Live")
        ELSE IF most_recent_seconds < StaleSeconds THEN Indicator("warning", "Recent")
        ELSE Indicator("error", "Stale")

\* load_live_events: the rows of the query; any exception of the query is
\* caught and an empty frame returned
load_live_events(outcome, rows) ==
    IF outcome = "ok" THEN rows ELSE <<>>

pipelineVars == <<keyLog, now, storeVars, pc, all_events, events, callNo, retryVars,
                  requests, acked, result, redelivered, bad_names, test_dedup,
                  start_time, is_unique, recent>>

FreshInit == keyLog = <<>> /\ StreamIdle

\* line 212: main() loads the live feed
LoadLiveEvents ==
    /\ page = "load"
    /\ \E outcome \in QueryOutcomes, rows \in Feeds :
        /\ outcome # "ok" => rows = <<>>
        /\ query_outcome' = outcome
        /\ live_events_df' = load_live_events(outcome, rows)
    /\ page' = "feed"
    /\ UNCHANGED <<pipelineVars, status>>

\* lines 390-421: the status indicator above the feed, or the "no live
\* events yet" note for an empty frame
ShowFeed ==
    /\ page = "feed"
    /\ status' = IF live_events_df # <<>>
                 THEN status_indicator(live_events_df)
                 ELSE Indicator("info", "No live events yet")
    /\ page' = "shown"
    /\ UNCHANGED <<pipelineVars, query_outcome, live_events_df>>

\* lines 424-426: auto-refresh reruns the script
Rerun ==
    /\ page = "shown"
    /\ page' = "load"
    /\ query_outcome' = "unset"
    /\ live_events_df' = <<>>
    /\ status' = NoResult
    /\ UNCHANGED pipelineVars

FreshNext == LoadLiveEvents \/ ShowFeed \/ Rerun

SpecFresh == FreshInit /\ [][FreshNext]_vars

-----------------------------------------------------------------------------
(* Properties of the key deriver, checked under SpecKey *)

SameTriple(a, b) ==
    /\ a.user_id = b.user_id
    /\ a.event_name = b.event_name
    /\ a.timestamp = b.timestamp

ValidIdentity(c) == c.user_id # <<>> /\ c.event_name # <<>> /\ c.timestamp >= 0

\* C3: key distinctness.  Two triples that differ in at least one field are
\* hashed from different strings: the separator makes the concatenation
\* unambiguous.  (Stated for valid identities, the case the claim needs most.)
KeyDistinctness ==
    \A i, j \in DOMAIN keyLog :
        (/\ ValidIdentity(keyLog[i])
         /\ ValidIdentity(keyLog[j])
         /\ ~SameTriple(keyLog[i], keyLog[j])) => keyLog[i].hashed # keyLog[j].hashed

\* C10: invalid identity is rejected before hashing.  A derivation whose
\* actor_id or event_name is empty, or whose timestamp is negative, raises a
\* validation error and yields no key.
InvalidIdentityRejected ==
    \A i \in DOMAIN keyLog :
        ~ValidIdentity(keyLog[i]) => keyLog[i].raised

-----------------------------------------------------------------------------
(* Properties of the write path, checked under Spec *)

\* the running or last stream_events call is over
CallEnded == requests # <<>> /\ pc \notin {"generate", "attempt", "inflight", "sleep"}

\* store failures the design calls transient (quota, timeout, transport)
TransientErrors == {"InternalServerError", "TooManyRequests", "ServiceUnavailable"}

RequestIds(req) == {req.row_ids[i] : i \in DOMAIN req.row_ids}

EventIds(evs) == {evs[i].event_id : i \in DOMAIN evs}

\* rows the result reports as acknowledged
RowsAcknowledged(res) == IF "rows_inserted" \in DOMAIN res THEN res.rows_inserted ELSE 0

\* positions the result reports as failed
RowsFailed(res) ==
    IF "errors" \in DOMAIN res THEN {e.index + 1 : e \in res.errors} ELSE {}

\* C1: dedup idempotence.  For every event whose writes (the first call, its
\* retries, the re-stream of --test-dedup, the other ingestor's redelivery)
\* all fall inside the dedup window, the store holds exactly one row for its
\* key and verify_deduplication on that key is true.
DedupIdempotence ==
    \A k \in DOMAIN writes :
        writes[k].last - writes[k].first < DedupWindow =>
            /\ RowCount(table, k) = 1
            /\ verify_deduplication(k)

\* C1 witness: the first event was streamed, re-streamed with a retry and
\* redelivered by the other ingestor, all inside the window, and verified
DedupIdempotenceWitness ==
    /\ callNo = 2
    /\ pc = "recent"
    /\ is_unique = TRUE
    /\ Len(requests) >= 2
    /\ redelivered >= 1
    /\ LET k == all_events[1].event_id
       IN  /\ k \in DOMAIN writes
           /\ writes[k].again
           /\ writes[k].last > writes[k].first
           /\ writes[k].last - writes[k].first < DedupWindow

\* C4: partial-failure isolation.  When the store answers with row errors,
\* the call ends with exactly the malformed rows reported as failures, every
\* other row acknowledged, and those other rows visible in the store.
PartialFailureIsolation ==
    (CallEnded /\ LastRequest.outcome = "row_errors") =>
        /\ result.kind = "returned"
        /\ RowsFailed(result) = InvalidRows(events)
        /\ RowsAcknowledged(result) = Len(events) - Cardinality(InvalidRows(events))
        /\ \A i \in DOMAIN events \ InvalidRows(events) :
               RowCount(table, events[i].event_id) >= 1

\* C5: a retry covers only the unacknowledged portion.  Every attempt after
\* the first submits no row the store has confirmed to this call, and
\* submits exactly the rows of the batch whose key is not yet confirmed.
RetryOnlyUnacknowledged ==
    \A j \in 2..Len(requests) :
        LET before == UNION {requests[i].confirmed : i \in 1..(j - 1)}
        IN  /\ RequestIds(requests[j]) \cap before = {}
            /\ RequestIds(requests[j]) = EventIds(events) \ before

\* C5 witness: a two-row batch was submitted again after a transient failure
RetryOnlyUnacknowledgedWitness ==
    /\ Len(requests) >= 2
    /\ Len(events) >= 2
    /\ requests[1].outcome \in TransientErrors
    /\ Len(requests[2].rows) = Len(events)

\* C6: deadline respect.  A call whose every attempt failed transiently ends
\* by returning a result that reports the rows unacknowledged, with zero
\* acknowledgments; it does not end by raising into the caller.
DeadlineRespect ==
    (/\ CallEnded
     /\ \A i \in DOMAIN requests : requests[i].outcome \in TransientErrors) =>
        /\ result.kind = "returned"
        /\ RowsAcknowledged(result) = 0

EmptyBatchRejected ==
    (pc \notin {"generate", "call"} /\ events = <<>>) =>
        /\ requests = <<>>
        /\ pc # "attempt" => result = Raised("InvalidArgument")

\* C9: no raise on partial failure.  For a non-empty batch answered with row
\* errors the call returns a result carrying those errors and the latency,
\* and raises nothing; a non-empty batch is never failed before the store
\* was asked.
NoRaiseOnPartialFailure ==
    /\ (events # <<>> /\ requests # <<>> /\ LastRequest.outcome = "row_errors") =>
           /\ result.kind = "returned"
           /\ result.success = FALSE
           /\ result.errors = LastRequest.errors
           /\ "latency_seconds" \in DOMAIN result
    /\ (events # <<>> /\ result.kind = "raised") => requests # <<>>

\* C9 witness: a call on a non-empty batch returned the store's row errors
NoRaiseOnPartialFailureWitness ==
    /\ pc = "returned"
    /\ events # <<>>
    /\ LastRequest.outcome = "row_errors"
    /\ result.kind = "returned"
    /\ result.errors # {}


\* C11: latency spans the whole operation.  The latency_seconds of the result
\* a call returns is the wall-clock time from the first submission of the
\* call to its final acknowledgement, so the attempts that failed and the
\* backoff waits between them are included.
LatencySpansOperation ==
    (CallEnded /\ events # <<>> /\ result.kind = "returned") =>
        result.latency_seconds = LastRequest.answered_at - requests[1].sent_at

-----------------------------------------------------------------------------
(* Properties of the live event feed, checked under SpecFresh *)

\* the three freshness classes, as the indicator shows them
ShownLive     == status.level = "success"
ShownDegraded == status.level = "warning"
ShownStale    == status.level = "error"

\* C12: freshness classification.  For every non-empty feed the status shown
\* depends only on the smallest age among its records: below 60 seconds it
\* is "live", from 60 up to but not including 300 it is "degraded", from 300
\* on it is "stale"; exactly one of the three is shown, whatever the age.
FreshnessClassification ==
    (page = "shown" /\ live_events_df # <<>>) =>
        \A i \in DOMAIN live_events_df :
            (\A j \in DOMAIN live_events_df : live_events_df[i] <= live_events_df[j]) =>
                LET age == live_events_df[i]
                IN  /\ ShownLive <=> age < 60
                    /\ ShownDegraded <=> (60 <= age /\ age < 300)
                    /\ ShownStale <=> age >= 300
                    /\ Cardinality({c \in {1, 2, 3} :
                            \/ c = 1 /\ ShownLive
                            \/ c = 2 /\ ShownDegraded
                            \/ c = 3 /\ ShownStale}) = 1

\* C12 witness: a feed whose most recent record is exactly 60 seconds old,
\* with an older record behind it, is shown as degraded
FreshnessClassificationWitness ==
    /\ page = "shown"
    /\ live_events_df = <<60, 600>>
    /\ ShownDegraded

-----------------------------------------------------------------------------
(* Properties of the recent-events reads *)

\* the last recent-events query was answered with an exception
QueryFailed == query_outcome \in StoreExceptions

\* C13: lenient freshness read.  When the recent-events query fails (the
\* streaming table is missing, or the query raises for another reason) the
\* read hands an empty result to its caller and no error, in the streamer's
\* get_recent_events as in the dashboard's load_live_events.
LenientFreshnessRead ==
    /\ (QueryFailed /\ recent # NoResult) =>
           recent = [kind |-> "returned", n_rows |-> 0]
    /\ (QueryFailed /\ page \in {"feed", "shown"}) => live_events_df = <<>>

-----------------------------------------------------------------------------
(* Properties of main(), checked under Spec *)

\* rows of the store that carry the key of the re-streamed event
RowsOfTestEvent == {i \in DOMAIN table : table[i].event_id = all_events[1].event_id}

\* C14: Dedup Verifier result.  verify_deduplication answers true exactly
\* when the store holds one row with the key it was asked about, false when
\* it holds none and when it holds two or more, and the store is the same
\* after the call as before.
DedupVerifierResult ==
    [][(pc = "verify" /\ pc' = "recent") =>
          /\ is_unique' = (Cardinality(RowsOfTestEvent) = 1)
          /\ Cardinality(RowsOfTestEvent) = 0 => is_unique' = FALSE
          /\ Cardinality(RowsOfTestEvent) >= 2 => is_unique' = FALSE
          /\ table' = table
          /\ insertIds' = insertIds]_vars

\* C14 witness: the verifier has answered false on a store that holds two
\* rows with the key
DedupVerifierResultWitness ==
    /\ pc = "recent"
    /\ callNo = 2
    /\ is_unique = FALSE
    /\ Cardinality(RowsOfTestEvent) = 2

\* C15: exit status of the command-line run.  main() ends normally (exit
\* code 0, after the "completed successfully" banner) only when the rows it
\* streamed were all acknowledged: never after a call that returned row
\* errors, and never after a call that ran out of its deadline.
ExitStatusReflectsOutcome ==
    pc = "exit" =>
        /\ result.kind = "returned"
        /\ result.success
        /\ EventIds(events) \subseteq acked

\* the batch main() handed to the call that is running or has just ended
\* (at "call" the next call has not been entered yet)
BatchPassed == IF callNo = 1 THEN all_events ELSE <<all_events[1]>>

\* C16: row-to-key alignment.  In every write a stream_events call issues,
\* the row payloads and the row ids are each as many as the events of the
\* batch, payload i is event i and row id i is the event_id of event i (no
\* row goes out under another event's key, without a key, or out of step
\* with its key); the batch is, throughout the call, the one the caller
\* passed.
RowKeyAlignment ==
    /\ \A r \in DOMAIN requests :
           /\ Len(requests[r].rows) = Len(events)
           /\ Len(requests[r].row_ids) = Len(events)
           /\ \A i \in DOMAIN events :
                  /\ requests[r].rows[i] = events[i]
                  /\ requests[r].row_ids[i] = events[i].event_id
                  /\ requests[r].row_ids[i] = requests[r].rows[i].event_id
    /\ (requests # <<>> /\ pc # "call") => events = BatchPassed

\* C16 witness: a retried call on a batch of two events with different keys
\* has issued its second write
RowKeyAlignmentWitness ==
    /\ Len(requests) = 2
    /\ Len(events) = 2
    /\ events[1].event_id # events[2].event_id
    /\ LastRequest.row_ids = <<events[1].event_id, events[2].event_id>>

====
